---- MODULE Spec2Model ----
(***************************************************************************)
(* libdict, src/errors.rs: the DictError enum, its Display implementation, *)
(* its error::Error implementation (description, cause) and the two From   *)
(* conversions that wrap io::Error and string::FromUtf8Error.              *)
(*                                                                         *)
(* One DictError value is built (directly, or by a From conversion of a    *)
(* foreign error) and then inspected through fmt, description and cause;   *)
(* the results of the three accessors are recorded next to the value.      *)
(* Rust Strings are TLA+ strings, Option<T> is a tagged record.            *)
(***************************************************************************)
EXTENDS Integers, Sequences, TLC

VARIABLES err, src, shown, descr, cse

vars == <<err, src, shown, descr, cse>>

----------------------------------------------------------------------------
(* Bounds of the input sets *)

\* line numbers given to InvalidCharacter are 0..MaxLine
MaxLine == 11
\* positions given to InvalidCharacter are 0..MaxPos
MaxPos == 10
\* line numbers given to MissingColumnInIndex are 0..MaxLnum
MaxLnum == 42

----------------------------------------------------------------------------
(* Option<T> *)

None == [tag |-> "None"]

Some(v) == [tag |-> "Some", val |-> v]

\* the value an accessor returned; Unset before the accessor was called
Unset == [tag |-> "Unset"]

Ok(v) == [tag |-> "Ok", val |-> v]

----------------------------------------------------------------------------
(* The foreign error types.  A foreign error is an opaque value with the   *)
(* three facets DictError reads from it: its Display output (msg), its     *)
(* description() (desc) and its cause(); the remaining fields stand for    *)
(* the rest of the value (the io::ErrorKind, the rejected bytes).          *)

\* an error found behind cause()
InnerErrors ==
    { [msg |-> "unexpected end of file", desc |-> "unexpected end of file"],
      [msg |-> "disk gone", desc |-> "disk gone"] }

Causes == {None} \cup { Some(c) : c \in InnerErrors }

\* ::std::io::Error: an OS error renders "... (os error N)" and describes
\* itself by its kind, a custom error renders and describes its payload
IoErrors ==
    [ kind  : {"NotFound", "Other"},
      msg   : {"", "disk gone", "No such file or directory (os error 2)"},
      desc  : {"", "disk gone", "entity not found"},
      cause : Causes ]

\* ::std::string::FromUtf8Error
Utf8Errors ==
    [ bytes : { <<255>>, <<104, 105, 192>> },
      msg   : {"invalid utf-8 sequence of 1 bytes from index 0",
               "incomplete utf-8 byte sequence from index 2"},
      desc  : {"invalid utf-8"},
      cause : Causes ]

----------------------------------------------------------------------------
(* enum DictError *)

\* no DictError has been built yet
NoErr == [tag |-> "NoErr"]

InvalidCharacter(ch, line, pos) ==
    [tag |-> "InvalidCharacter", ch |-> ch, line |-> line, pos |-> pos]

MissingColumnInIndex(lnum) == [tag |-> "MissingColumnInIndex", lnum |-> lnum]

InvalidFileFormat(explanation, path) ==
    [tag |-> "InvalidFileFormat", explanation |-> explanation, path |-> path]

MemoryError == [tag |-> "MemoryError"]

WordNotFound(word) == [tag |-> "WordNotFound", word |-> word]

IoError(e) == [tag |-> "IoError", e |-> e]

Utf8Error(e) == [tag |-> "Utf8Error", e |-> e]

\* payloads the callers hand in; nothing is validated at construction
Chars == {"x", "#"}

Lines == {None} \cup { Some(n) : n \in 0..MaxLine }

Positions == {None} \cup { Some(n) : n \in 0..MaxPos }

Lnums == 0..MaxLnum

Explanations == {"", "bad magic bytes"}

Paths == {None, Some(""), Some("/tmp/x.dict")}

Words == {"", "quokka"}

----------------------------------------------------------------------------
(* "{}" of a usize: its decimal digits, most significant first *)

Digit == <<"0", "1", "2", "3", "4", "5", "6", "7", "8", "9">>

RECURSIVE fmt_usize(_)
fmt_usize(n) ==
    IF n < 10 THEN Digit[n + 1]
    ELSE fmt_usize(n \div 10) \o Digit[(n % 10) + 1]

----------------------------------------------------------------------------
(* impl Display for DictError, one operator per match arm *)

fmt_MemoryError == "not enough memory available"

\* faulty variant: the fixed prefix is left out
fmt_WordNotFound_bare(word) == word

fmt_WordNotFound(word) == "Word not found: " \o word

\* faulty variant: the two location clauses in the opposite order
fmt_InvalidCharacter_swapped(ch, line, pos) ==
    "Invalid character " \o ch
        \o (IF pos.tag = "Some" THEN " at position " \o fmt_usize(pos.val) ELSE "")
        \o (IF line.tag = "Some" THEN " on line " \o fmt_usize(line.val) ELSE "")

\* faulty variant: the position is rendered only when a line is present
fmt_InvalidCharacter_nested(ch, line, pos) ==
    "Invalid character " \o ch
        \o (IF line.tag = "Some"
            THEN " on line " \o fmt_usize(line.val)
                 \o (IF pos.tag = "Some"
                     THEN " at position " \o fmt_usize(pos.val) ELSE "")
            ELSE "")

fmt_InvalidCharacter(ch, line, pos) ==
    "Invalid character " \o ch
        \o (IF line.tag = "Some" THEN " on line " \o fmt_usize(line.val) ELSE "")
        \o (IF pos.tag = "Some" THEN " at position " \o fmt_usize(pos.val) ELSE "")

\* faulty variant: the literal keeps the line break and the indentation
fmt_MissingColumnInIndex_nocontinuation(lnum) ==
    "line " \o fmt_usize(lnum) \o ": not \n                    "
        \o "enough <tab>-separated columns found, expected 3"

\* the literal is split by a backslash at the end of the source line: the
\* line break and the indentation of the next line are not part of it
fmt_MissingColumnInIndex(lnum) ==
    "line " \o fmt_usize(lnum) \o ": not "
        \o "enough <tab>-separated columns found, expected 3"

\* faulty variant: a separator is put between path and explanation
fmt_InvalidFileFormat_separated(explanation, path) ==
    (IF path.tag = "Some" THEN path.val \o ": " ELSE "") \o explanation

fmt_InvalidFileFormat(explanation, path) ==
    (IF path.tag = "Some" THEN path.val ELSE "") \o explanation

\* faulty variant: the IoError arm adds a prefix of its own
fmt_prefixed(self) ==
    CASE self.tag = "IoError" -> "I/O error: " \o self.e.msg
      [] self.tag = "Utf8Error" -> self.e.msg
      [] self.tag = "MemoryError" -> fmt_MemoryError
      [] self.tag = "WordNotFound" -> fmt_WordNotFound(self.word)
      [] self.tag = "InvalidCharacter" ->
            fmt_InvalidCharacter(self.ch, self.line, self.pos)
      [] self.tag = "MissingColumnInIndex" -> fmt_MissingColumnInIndex(self.lnum)
      [] self.tag = "InvalidFileFormat" ->
            fmt_InvalidFileFormat(self.explanation, self.path)

fmt(self) ==
    CASE self.tag = "IoError" -> self.e.msg
      [] self.tag = "Utf8Error" -> self.e.msg
      [] self.tag = "MemoryError" -> fmt_MemoryError
      [] self.tag = "WordNotFound" -> fmt_WordNotFound(self.word)
      [] self.tag = "InvalidCharacter" ->
            fmt_InvalidCharacter(self.ch, self.line, self.pos)
      [] self.tag = "MissingColumnInIndex" -> fmt_MissingColumnInIndex(self.lnum)
      [] self.tag = "InvalidFileFormat" ->
            fmt_InvalidFileFormat(self.explanation, self.path)

----------------------------------------------------------------------------
(* impl error::Error for DictError *)

\* faulty variant: a fixed label for IoError instead of delegating
description_generic_io(self) ==
    CASE self.tag = "InvalidCharacter" -> "invalid character"
      [] self.tag = "MemoryError" -> "not enough memory available"
      [] self.tag = "WordNotFound" -> "word not found"
      [] self.tag = "MissingColumnInIndex" ->
            "not enough <tab>-separated columnss given"
      [] self.tag = "InvalidFileFormat" -> "could not determine file format"
      [] self.tag = "IoError" -> "I/O error"
      [] self.tag = "Utf8Error" -> self.e.desc

\* faulty variant: the WordNotFound label carries the word
description_with_word(self) ==
    CASE self.tag = "InvalidCharacter" -> "invalid character"
      [] self.tag = "MemoryError" -> "not enough memory available"
      [] self.tag = "WordNotFound" -> "word not found" \o self.word
      [] self.tag = "MissingColumnInIndex" ->
            "not enough <tab>-separated columnss given"
      [] self.tag = "InvalidFileFormat" -> "could not determine file format"
      [] self.tag = "IoError" -> self.e.desc
      [] self.tag = "Utf8Error" -> self.e.desc

description(self) ==
    CASE self.tag = "InvalidCharacter" -> "invalid character"
      [] self.tag = "MemoryError" -> "not enough memory available"
      [] self.tag = "WordNotFound" -> "word not found"
      [] self.tag = "MissingColumnInIndex" ->
            "not enough <tab>-separated columnss given"
      [] self.tag = "InvalidFileFormat" -> "could not determine file format"
      [] self.tag = "IoError" -> self.e.desc
      [] self.tag = "Utf8Error" -> self.e.desc

\* faulty variant: IoError names the wrapped error itself as its cause
cause_wrapped_itself(self) ==
    CASE self.tag = "IoError" -> Some([msg |-> self.e.msg, desc |-> self.e.desc])
      [] self.tag = "Utf8Error" -> self.e.cause
      [] OTHER -> None

cause(self) ==
    CASE self.tag = "IoError" -> self.e.cause
      [] self.tag = "Utf8Error" -> self.e.cause
      [] OTHER -> None

----------------------------------------------------------------------------
(* impl From<io::Error>, impl From<FromUtf8Error> *)

\* faulty variant: the conversion drops the cause of the wrapped error
from_io_Error_lossy(e) == IoError([e EXCEPT !.cause = None])

from_io_Error(e) == IoError(e)

from_FromUtf8Error(e) == Utf8Error(e)

----------------------------------------------------------------------------
(* The state machine *)

NoSrc == [tag |-> "NoSrc"]

Init ==
    /\ err = NoErr
    /\ src = NoSrc
    /\ shown = Unset
    /\ descr = Unset
    /\ cse = Unset

\* each variant is constructed directly with its payload
NewInvalidCharacter ==
    \E ch \in Chars, line \in Lines, pos \in Positions :
        /\ err = NoErr
        /\ err' = InvalidCharacter(ch, line, pos)
        /\ UNCHANGED <<src, shown, descr, cse>>

NewMissingColumnInIndex ==
    \E lnum \in Lnums :
        /\ err = NoErr
        /\ err' = MissingColumnInIndex(lnum)
        /\ UNCHANGED <<src, shown, descr, cse>>

NewInvalidFileFormat ==
    \E explanation \in Explanations, path \in Paths :
        /\ err = NoErr
        /\ err' = InvalidFileFormat(explanation, path)
        /\ UNCHANGED <<src, shown, descr, cse>>

NewMemoryError ==
    /\ err = NoErr
    /\ err' = MemoryError
    /\ UNCHANGED <<src, shown, descr, cse>>

NewWordNotFound ==
    \E word \in Words :
        /\ err = NoErr
        /\ err' = WordNotFound(word)
        /\ UNCHANGED <<src, shown, descr, cse>>

\* DictError::from(e) for an io::Error e
FromIo ==
    \E e \in IoErrors :
        /\ err = NoErr
        /\ err' = from_io_Error(e)
        /\ src' = [tag |-> "io", val |-> e]
        /\ UNCHANGED <<shown, descr, cse>>

\* DictError::from(e) for a FromUtf8Error e
FromUtf8 ==
    \E e \in Utf8Errors :
        /\ err = NoErr
        /\ err' = from_FromUtf8Error(e)
        /\ src' = [tag |-> "utf8", val |-> e]
        /\ UNCHANGED <<shown, descr, cse>>

\* the value is displayed into a String
CallFmt ==
    /\ err # NoErr
    /\ shown' = Ok(fmt(err))
    /\ UNCHANGED <<err, src, descr, cse>>

CallDescription ==
    /\ err # NoErr
    /\ descr' = Ok(description(err))
    /\ UNCHANGED <<err, src, shown, cse>>

CallCause ==
    /\ err # NoErr
    /\ cse' = Ok(cause(err))
    /\ UNCHANGED <<err, src, shown, descr>>

Next ==
    \/ NewInvalidCharacter
    \/ NewMissingColumnInIndex
    \/ NewInvalidFileFormat
    \/ NewMemoryError
    \/ NewWordNotFound
    \/ FromIo
    \/ FromUtf8
    \/ CallFmt
    \/ CallDescription
    \/ CallCause

Spec == Init /\ [][Next]_vars

----------------------------------------------------------------------------
(* Properties *)

Wrapped == {"IoError", "Utf8Error"}

NonWrapping == {"InvalidCharacter", "MissingColumnInIndex", "InvalidFileFormat",
                "MemoryError", "WordNotFound"}

\* C1: converting a foreign I/O error e yields exactly IoError(e), converting a
\* foreign decoding error u yields exactly Utf8Error(u): never another
\* variant, and no part of the wrapped value is altered or dropped.
C1_ConversionLossless ==
    /\ src.tag = "io" => err = [tag |-> "IoError", e |-> src.val]
    /\ src.tag = "utf8" => err = [tag |-> "Utf8Error", e |-> src.val]

C1_Witness ==
    /\ src.tag = "io"
    /\ src.val.cause # None
    /\ src.val.msg = "No such file or directory (os error 2)"
    /\ err.tag = "IoError"

\* C2 as stated: InvalidCharacter(ch, n, p) displays "Invalid character {ch}",
\* then ", on line {n}" if a line is present, then " at position {p}" if a
\* position is present.
C2_Original ==
    (err.tag = "InvalidCharacter" /\ shown # Unset) =>
        shown.val = "Invalid character " \o err.ch
            \o (IF err.line = None THEN ""
                ELSE ", on line " \o ToString(err.line.val))
            \o (IF err.pos = None THEN ""
                ELSE " at position " \o ToString(err.pos.val))

\* C2 amended: InvalidCharacter(ch, n, p) displays "Invalid character {ch}",
\* then " on line {n}" (a space, no comma) if a line is present, then
\* " at position {p}" if a position is present.
C2_InvalidCharacterDisplay ==
    (err.tag = "InvalidCharacter" /\ shown # Unset) =>
        shown.val = "Invalid character " \o err.ch
            \o (IF err.line = None THEN ""
                ELSE " on line " \o ToString(err.line.val))
            \o (IF err.pos = None THEN ""
                ELSE " at position " \o ToString(err.pos.val))

C2_Witness ==
    /\ err.tag = "InvalidCharacter"
    /\ err.line = Some(11)
    /\ err.pos = Some(10)
    /\ shown = Ok("Invalid character # on line 11 at position 10")

\* C3 as stated: for every variant and payload, displaying the error never
\* fails and never returns the empty string.
C3_Original ==
    (err # NoErr /\ shown # Unset) => (shown.tag = "Ok" /\ shown.val # "")

\* the values whose display is empty: an InvalidFileFormat with an empty
\* explanation and no (or an empty) path, a wrapped error with an empty message
C3_EmptyInput ==
    \/ /\ err.tag = "InvalidFileFormat"
       /\ err.explanation = ""
       /\ err.path \in {None, Some("")}
    \/ /\ err.tag \in Wrapped
       /\ err.e.msg = ""

\* C3 amended: displaying never fails, and returns the empty string exactly
\* for an InvalidFileFormat whose explanation is empty and whose path is
\* absent or empty, and for a wrapped foreign error whose own message is
\* empty; for every other value the output is non-empty.
C3_DisplayNonEmpty ==
    (err # NoErr /\ shown # Unset) =>
        /\ shown.tag = "Ok"
        /\ (shown.val = "") <=> C3_EmptyInput

C3_Witness ==
    /\ err = [tag |-> "WordNotFound", word |-> ""]
    /\ shown = Ok("Word not found: ")

\* C4 as stated: for a foreign I/O failure e with message m, with or without
\* a cause of its own, the description accessor and the cause accessor of the
\* converted error reproduce m.
C4_Original ==
    (src.tag = "io" /\ descr # Unset /\ cse # Unset) =>
        /\ descr.val = src.val.msg
        /\ cse.val # None
        /\ cse.val.val.msg = src.val.msg

\* C4 amended: for a foreign I/O failure e with message m, the converted
\* error displays m verbatim; its description accessor reproduces e's own
\* short description and its cause accessor e's own cause (absent when e has
\* none), neither of which need be m.
C4_RoundTrip ==
    src.tag = "io" =>
        /\ shown # Unset => shown.val = src.val.msg
        /\ descr # Unset => descr.val = src.val.desc
        /\ cse # Unset => cse.val = src.val.cause

C4_Witness ==
    /\ src.tag = "io"
    /\ src.val.msg = "No such file or directory (os error 2)"
    /\ src.val.cause = None
    /\ shown = Ok("No such file or directory (os error 2)")
    /\ descr = Ok("entity not found")
    /\ cse = Ok(None)

\* C5: cause returns no cause for every InvalidCharacter,
\* MissingColumnInIndex, InvalidFileFormat, MemoryError and WordNotFound;
\* for IoError and Utf8Error it returns exactly the wrapped error's own cause.
C5_Cause ==
    cse # Unset =>
        /\ err.tag \in NonWrapping => cse.val = None
        /\ err.tag \in Wrapped => cse.val = err.e.cause
        /\ cse.val # None => err.tag \in Wrapped

C5_Witness ==
    /\ err.tag = "IoError"
    /\ cse = Ok(Some([msg |-> "disk gone", desc |-> "disk gone"]))

\* every value of the variant of e that the callers can build
SameVariant(e) ==
    CASE e.tag = "InvalidCharacter" ->
            { InvalidCharacter(ch, line, pos) :
                ch \in Chars, line \in Lines, pos \in Positions }
      [] e.tag = "MissingColumnInIndex" ->
            { MissingColumnInIndex(lnum) : lnum \in Lnums }
      [] e.tag = "InvalidFileFormat" ->
            { InvalidFileFormat(x, p) : x \in Explanations, p \in Paths }
      [] e.tag = "MemoryError" -> {MemoryError}
      [] e.tag = "WordNotFound" -> { WordNotFound(w) : w \in Words }

\* C6: the description of a non-wrapping variant is non-empty and depends
\* only on the variant: every value of the same variant, whatever its
\* payload, has the description this value has.
C6_DescriptionFixed ==
    (err.tag \in NonWrapping /\ descr # Unset) =>
        /\ descr.val # ""
        /\ \A other \in SameVariant(err) : description(other) = descr.val

C6_Witness ==
    /\ err = [tag |-> "WordNotFound", word |-> "quokka"]
    /\ descr = Ok("word not found")

\* C7: InvalidFileFormat(x, p) displays the path (nothing when absent)
\* immediately followed by x, with no separator.
C7_InvalidFileFormatDisplay ==
    (err.tag = "InvalidFileFormat" /\ shown # Unset) =>
        shown.val = IF err.path = None THEN err.explanation
                    ELSE err.path.val \o err.explanation

C7_Witness ==
    /\ err.tag = "InvalidFileFormat"
    /\ err.path = Some("/tmp/x.dict")
    /\ err.explanation = "bad magic bytes"
    /\ shown = Ok("/tmp/x.dictbad magic bytes")

\* C8: the two location clauses of InvalidCharacter are independent: the
\* display of the value is the display without its position followed by the
\* position clause, the display without its line is the bare text followed
\* by the same position clause, the line clause is the same with and without
\* a position, and with neither the display is "Invalid character {ch}".
C8_ClausesIndependent ==
    (err.tag = "InvalidCharacter" /\ shown # Unset) =>
        LET bare == "Invalid character " \o err.ch
            posClause == IF err.pos = None THEN ""
                         ELSE " at position " \o ToString(err.pos.val)
            lineClauses == IF err.line = None THEN {""}
                           ELSE { " on line " \o ToString(err.line.val),
                                  ", on line " \o ToString(err.line.val) }
            noLine == fmt(InvalidCharacter(err.ch, None, err.pos))
            noPos == fmt(InvalidCharacter(err.ch, err.line, None))
            neither == fmt(InvalidCharacter(err.ch, None, None))
        IN  /\ neither = bare
            /\ noLine = bare \o posClause
            /\ shown.val = noPos \o posClause
            /\ \E lc \in lineClauses :
                  /\ noPos = bare \o lc
                  /\ shown.val = bare \o lc \o posClause

C8_Witness ==
    /\ err.tag = "InvalidCharacter"
    /\ err.line = None
    /\ err.pos = Some(7)
    /\ shown = Ok("Invalid character x at position 7")

\* C9: for IoError and Utf8Error the display is exactly the wrapped error's
\* own message and the description exactly its own short description.
C9_WrappedDelegates ==
    err.tag \in Wrapped =>
        /\ shown # Unset => shown.val = err.e.msg
        /\ descr # Unset => descr.val = err.e.desc

C9_Witness ==
    /\ err.tag = "Utf8Error"
    /\ shown = Ok("incomplete utf-8 byte sequence from index 2")
    /\ descr = Ok("invalid utf-8")

\* C10: MissingColumnInIndex(n) displays exactly
\* "line {n}: not enough <tab>-separated columns found, expected 3".
C10_MissingColumnDisplay ==
    (err.tag = "MissingColumnInIndex" /\ shown # Unset) =>
        shown.val = "line " \o ToString(err.lnum)
            \o ": not enough <tab>-separated columns found, expected 3"

C10_Witness ==
    /\ err = [tag |-> "MissingColumnInIndex", lnum |-> 42]
    /\ shown = Ok("line 42: not enough <tab>-separated columns found, expected 3")

====
